---------------------------- MODULE Spec2Model ----------------------------
(***************************************************************************)
(* Model of proteinnetworks/insight.py: the maximum-common-subgraph search *)
(* getMCS, the domain-overlap score getModifiedJaccard, the construction   *)
(* of a SuperNetwork against the supernetwork store, getWeakIsomorphs, and *)
(* the null model and z-score the tests call.                              *)
(***************************************************************************)
EXTENDS Integers, Sequences, FiniteSets, TLC

VARIABLES
    mcsPhase,   \* "call" before getMCS has run on (mcsG1, mcsG2), "done" after
    mcsG1,      \* first argument of getMCS
    mcsG2,      \* second argument of getMCS
    mcsRet,     \* what getMCS did: returned graph, None, or the exception raised
    mjPhase,         \* "call" before getModifiedJaccard has run, "done" after
    expectedArray,   \* first argument of getModifiedJaccard (reference labels)
    generatedArray,  \* second argument of getModifiedJaccard (community labels)
    mjRet,           \* what getModifiedJaccard did: a score, nan, or an exception
    pfamArray,   \* what inputpartition.getPFAMDomainArray() gives (or NoPFAM)
    levels,      \* levels[pid]: inputpartition.data of partition pid
    edgelist,    \* the fine edge list behind inputpartition.edgelistid
    store,       \* the supernetwork documents deposited so far, in order
    pc,          \* pc[p]: where construction p is: new, miss, done or failed
    sn,          \* sn[p]: the SuperNetwork object under construction
    reads,       \* reads[p]: how often construction p fetched the edge list
    scored,      \* scored[p]: how many levels construction p has scored
    wiPhase,     \* "call" before getWeakIsomorphs has run, "done" after
    wiData,      \* self.data of the supernetwork getWeakIsomorphs is called on
    wiSubset,    \* the subset argument: None, or an array of documents
    wiConsulted, \* whether the call asked the store for its supernetworks
    wiRet,       \* what getWeakIsomorphs did: the list returned, or an exception
    nmPhase,     \* "call" before generateNullModel has run, "done" after
    nmPartition, \* the argument of generateNullModel
    nmRet,       \* what generateNullModel did: an array, or an exception
    zsPhase,     \* "call", "trials" while null models are scored, "done"
    zsExpected,  \* first argument of getZScore (reference labels)
    zsGenerated, \* second argument of getZScore (community labels)
    zsTrials,    \* the numTrials argument of getZScore
    zsScores,    \* the scores of the null models drawn so far
    zsRet        \* what getZScore did: a z-score, or an exception

mcsVars == <<mcsPhase, mcsG1, mcsG2, mcsRet>>
mjVars == <<mjPhase, expectedArray, generatedArray, mjRet>>
worldVars == <<pfamArray, levels, edgelist>>
snVars == <<store, pc, sn, reads, scored>>
wiVars == <<wiPhase, wiData, wiSubset, wiConsulted, wiRet>>
nmVars == <<nmPhase, nmPartition, nmRet>>
zsVars == <<zsPhase, zsExpected, zsGenerated, zsTrials, zsScores, zsRet>>
vars == <<mcsVars, mjVars, worldVars, snVars, wiVars, nmVars, zsVars>>

(***************************************************************************)
(* Bounds of the model.                                                    *)
(***************************************************************************)
MaxLabel == 3        \* node labels of the small graphs are drawn from 0..MaxLabel
MaxSmallNodes == 3   \* the small graphs have at most this many nodes
MaxArrayLen == 3     \* label arrays have at most this many positions
MaxRefLabel == 3     \* reference labels are drawn from 1..MaxRefLabel
MaxGenLabel == 3     \* community labels are drawn from 1..MaxGenLabel
NumNodes == 3        \* nodes (residues) of the protein of the store
MaxLevels == 2       \* a partition has at most this many levels
MaxEdges == 2        \* the fine edge list has at most this many edges
NumProcs == 2        \* SuperNetwork constructions that are carried out

(***************************************************************************)
(* Graph values.  A networkx graph is a kind, a node set and an adjacency  *)
(* relation; nx.Graph keeps both orientations of every edge, nx.DiGraph    *)
(* only the one that was added.  A value that is no graph at all (the      *)
(* string of the test) has kind "str".                                     *)
(***************************************************************************)
MkGraph(kind, nodes, edges) == [kind |-> kind, nodes |-> nodes, edges |-> edges]

Symmetric(edges) == edges \cup {<<e[2], e[1]>> : e \in edges}

\* the unordered pairs over a node set, each as the ordered pair u < v
PairsOf(nodes) == {e \in nodes \X nodes : e[1] < e[2]}

UndirectedOn(nodes) ==
    {MkGraph("Graph", nodes, Symmetric(es)) : es \in SUBSET PairsOf(nodes)}

DirectedOn(nodes) ==
    {MkGraph("DiGraph", nodes, es) : es \in SUBSET {e \in nodes \X nodes : e[1] # e[2]}}

NotAGraph == MkGraph("str", {}, {})

number_of_nodes(G) == Cardinality(G.nodes)

\* G.subgraph(nbunch): the induced subgraph on the members of nbunch that are
\* nodes of G; labels of nbunch that G does not have are ignored.
subgraph(G, nbunch) ==
    LET keep == G.nodes \cap {nbunch[k] : k \in 1..Len(nbunch)}
    IN  MkGraph(G.kind, keep, {e \in G.edges : e[1] \in keep /\ e[2] \in keep})

\* nx.Graph(H): an undirected copy of H
ToGraph(H) == MkGraph("Graph", H.nodes, Symmetric(H.edges))


(***************************************************************************)
(* getMCS (insight.py lines 239-262).                                      *)
(***************************************************************************)
MaxExactNodes == 25   \* the size guard of line 249

\* itertools.combinations(range(lo, n), k): the k-tuples in the order emitted
RECURSIVE combinations(_, _, _)
combinations(lo, n, k) ==
    IF k = 0 THEN << <<>> >>
    ELSE IF n - lo < k THEN << >>
    ELSE LET withLo == combinations(lo + 1, n, k - 1)
         IN  [x \in 1..Len(withLo) |-> <<lo>> \o withLo[x]]
                 \o combinations(lo + 1, n, k)

\* nx.is_isomorphic on two graphs of the same kind: some bijection of the node
\* sets carries the adjacency relation of A onto that of B (two graphs without
\* nodes are isomorphic).
is_isomorphic(A, B) ==
    /\ Cardinality(A.nodes) = Cardinality(B.nodes)
    /\ \E f \in [A.nodes -> B.nodes] :
          /\ \A u, v \in A.nodes : u # v => f[u] # f[v]
          /\ \A u, v \in A.nodes :
                (<<u, v>> \in A.edges) <=> (<<f[u], f[v]>> \in B.edges)

\* what a call of getMCS did
MCSReturn(G, tests) == [status |-> "graph", graph |-> G, tests |-> tests]
MCSNone(tests) == [status |-> "None", graph |-> NotAGraph, tests |-> tests]
MCSRaise(exc, tests) == [status |-> exc, graph |-> NotAGraph, tests |-> tests]

\* line 249: the guard looks at the larger graph only
TooLargeOffByOne(N_G1, N_G2) == N_G2 >= MaxExactNodes
TooLarge(N_G1, N_G2) == N_G2 > MaxExactNodes

\* lines 259-262: one subgraph of G1 against the subsets C2 of G2, in order,
\* up to the first test that succeeds (the loop returns there) or raises:
\* nx.is_isomorphic raises NetworkXError when exactly one of its arguments is
\* directed.
SearchG2(sub1, G2, C2, tests) ==
    LET stops == {b \in 1..Len(C2) : \/ sub1.kind # G2.kind
                                     \/ is_isomorphic(sub1, subgraph(G2, C2[b]))}
        b0 == CHOOSE b \in stops : \A m \in stops : b <= m
    IN  IF stops = {} THEN [found |-> "no", tests |-> tests + Len(C2)]
        ELSE IF sub1.kind # G2.kind
            THEN [found |-> "NetworkXError", tests |-> tests + b0]
        ELSE [found |-> "yes", tests |-> tests + b0]

\* lines 256-262: the subsets of G1 of one size, from the a-th on
RECURSIVE SearchG1(_, _, _, _, _, _)
SearchG1(G1, G2, C1, C2, a, tests) ==
    IF a > Len(C1) THEN [found |-> "no", graph |-> NotAGraph, tests |-> tests]
    ELSE LET sub1 == subgraph(G1, C1[a])
             r == SearchG2(sub1, G2, C2, tests)
         IN  IF r.found = "no" THEN SearchG1(G1, G2, C1, C2, a + 1, r.tests)
             ELSE [found |-> r.found, graph |-> ToGraph(sub1), tests |-> r.tests]

\* lines 253-262: the sizes i, i-1, ..., 1; falling off the loop returns None
RECURSIVE SearchSize(_, _, _, _, _, _)
SearchSize(G1, G2, N_G1, N_G2, i, tests) ==
    IF i < 1 THEN MCSNone(tests)
    ELSE LET r == SearchG1(G1, G2, combinations(0, N_G1, i),
                           combinations(0, N_G2, i), 1, tests)
         IN  IF r.found = "yes" THEN MCSReturn(r.graph, r.tests)
             ELSE IF r.found = "no"
                 THEN SearchSize(G1, G2, N_G1, N_G2, i - 1, r.tests)
             ELSE MCSRaise(r.found, r.tests)

\* lines 242-245: G1 becomes the graph with no more nodes than the other
Smaller(A, B) == IF number_of_nodes(A) > number_of_nodes(B) THEN B ELSE A
Larger(A, B) == IF number_of_nodes(A) > number_of_nodes(B) THEN A ELSE B

getMCS(A, B) ==
    \* a value without number_of_nodes fails at line 242
    IF A.kind = "str" \/ B.kind = "str" THEN MCSRaise("AttributeError", 0)
    ELSE LET G1 == Smaller(A, B)
             G2 == Larger(A, B)
             N_G1 == number_of_nodes(G1)
             N_G2 == number_of_nodes(G2)
         IN  IF TooLarge(N_G1, N_G2) THEN MCSRaise("ValueError", 0)
             ELSE SearchSize(G1, G2, N_G1, N_G2, N_G1, 0)

(***************************************************************************)
(* The arguments getMCS is applied to.                                     *)
(***************************************************************************)
Labels == 0..MaxLabel

SmallNodeSets == {S \in SUBSET Labels : Cardinality(S) <= MaxSmallNodes}

SmallGraphs == UNION {UndirectedOn(S) : S \in SmallNodeSets}

TinyGraphs == {G \in SmallGraphs : number_of_nodes(G) <= 2}

SmallDiGraphs == UNION {DirectedOn(S) : S \in {{0}, {0, 1}, {1, 2}}}

\* the path 0 - 1 - ... - (n-1)
PathGraph(n) ==
    MkGraph("Graph", 0..(n - 1), Symmetric({<<k, k + 1>> : k \in 0..(n - 2)}))

AtGuard == PathGraph(MaxExactNodes)
OverGuard == PathGraph(MaxExactNodes + 1)

\* the graphs of tests/test_insight.py
TestTriangle == MkGraph("Graph", {1, 2, 3}, Symmetric({<<1, 2>>, <<2, 3>>, <<1, 3>>}))
TestTriangleRelabelled ==
    MkGraph("Graph", {2, 3, 4}, Symmetric({<<2, 3>>, <<3, 4>>, <<4, 2>>}))
TestPendant ==
    MkGraph("Graph", {2, 3, 4, 5}, Symmetric({<<2, 3>>, <<3, 4>>, <<4, 2>>, <<2, 5>>}))
TestSingleNode == MkGraph("Graph", {1}, {})
TestTwoTriangles ==
    MkGraph("Graph", {2, 3, 4, 5, 6, 7},
            Symmetric({<<2, 3>>, <<3, 4>>, <<4, 2>>, <<5, 6>>, <<6, 7>>, <<7, 5>>}))
TestDiTriangle == MkGraph("DiGraph", {1, 2, 3}, {<<1, 2>>, <<2, 3>>, <<1, 3>>})

TestArguments ==
    {<<TestDiTriangle, NotAGraph>>, <<TestTriangle, TestTriangleRelabelled>>,
     <<TestTriangle, TestPendant>>, <<TestTriangle, TestSingleNode>>,
     <<TestTriangle, TestTwoTriangles>>}

MCSArguments ==
    TestArguments \cup (SmallGraphs \X SmallGraphs)
        \cup (TinyGraphs \X {AtGuard}) \cup ({AtGuard} \X TinyGraphs)
        \cup ((SmallGraphs \cup {AtGuard, OverGuard}) \X {OverGuard})
        \cup ({OverGuard} \X (SmallGraphs \cup {AtGuard}))
        \cup ((SmallDiGraphs \cup {NotAGraph}) \X (SmallDiGraphs \cup TinyGraphs \cup {NotAGraph, OverGuard}))
        \cup ((TinyGraphs \cup {OverGuard}) \X (SmallDiGraphs \cup {NotAGraph}))

(***************************************************************************)
(* getModifiedJaccard (insight.py lines 195-236).  Scores are kept as exact *)
(* fractions; the rounding of the floating-point divisions is not modelled.*)
(***************************************************************************)
RECURSIVE GCD(_, _)
GCD(a, b) == IF b = 0 THEN a ELSE GCD(b, a % b)

\* the fraction n/d (n >= 0, d > 0) in lowest terms
Frac(n, d) == LET g == GCD(n, d) IN [num |-> n \div g, den |-> d \div g]

FracAdd(x, y) == Frac(x.num * y.den + y.num * x.den, x.den * y.den)
FracMul(x, y) == Frac(x.num * y.num, x.den * y.den)
FracDiv(x, n) == Frac(x.num, x.den * n)

\* sum(...) of the fractions f[k], k in S
RECURSIVE FracSum(_, _)
FracSum(f, S) ==
    IF S = {} THEN Frac(0, 1)
    ELSE LET k == CHOOSE m \in S : TRUE
         IN  FracAdd(f[k], FracSum(f, S \ {k}))

\* sum(...) of the integers f[k], k in S
RECURSIVE IntSum(_, _)
IntSum(f, S) ==
    IF S = {} THEN 0
    ELSE LET k == CHOOSE m \in S : TRUE
         IN  f[k] + IntSum(f, S \ {k})

\* set(array)
Values(array) == {array[k] : k \in 1..Len(array)}

MJScore(x) == [status |-> "score", score |-> x]
MJNan == [status |-> "nan", score |-> Frac(0, 1)]
MJRaise(exc) == [status |-> exc, score |-> Frac(0, 1)]

\* line 217: range(2, numPFAMdomains + 1)
DomainRangeFromOne(numPFAMdomains) == 1..numPFAMdomains
DomainRange(numPFAMdomains) == 2..numPFAMdomains

\* lines 223-224: count_nonzero(logical_and(generated == j, expected == i))
intersection(expected, generated, i, j) ==
    Cardinality({k \in 1..Len(expected) : generated[k] = j /\ expected[k] = i})

\* lines 225-226: count_nonzero(logical_or(generated == j, expected == i))
unionOnlyModule(expected, generated, i, j) ==
    Cardinality({k \in 1..Len(expected) : generated[k] = j})
union(expected, generated, i, j) ==
    Cardinality({k \in 1..Len(expected) : generated[k] = j \/ expected[k] = i})

\* lines 219-234: the score of domain i, on arrays of one length
DomainJaccard(expected, generated, i) ==
    LET overlappingModules ==
            {generated[k] : k \in {m \in 1..Len(expected) : expected[m] = i}}
        jaccard == [j \in overlappingModules |->
                        Frac(intersection(expected, generated, i, j),
                             union(expected, generated, i, j))]
        intersections == [j \in overlappingModules |->
                        intersection(expected, generated, i, j)]
        total == IntSum(intersections, overlappingModules)
        weighted == [j \in overlappingModules |->
                        FracDiv(FracMul(jaccard[j], Frac(intersections[j], 1)), total)]
    IN  FracSum(weighted, overlappingModules)

\* np.mean of no value is nan (with a warning); a boolean mask whose length is
\* not that of the indexed array raises IndexError at line 221.
getModifiedJaccard(expected, generated) ==
    LET numPFAMdomains == Cardinality(Values(expected))
        domains == DomainRange(numPFAMdomains)
        jaccards == [i \in domains |-> DomainJaccard(expected, generated, i)]
    IN  IF domains = {} THEN MJNan
        ELSE IF Len(expected) # Len(generated) THEN MJRaise("IndexError")
        ELSE MJScore(FracDiv(FracSum(jaccards, domains), Cardinality(domains)))

(***************************************************************************)
(* The arguments getModifiedJaccard is applied to.                         *)
(***************************************************************************)
ArraysOver(labels) == UNION {[1..n -> labels] : n \in 0..MaxArrayLen}

RefArrays == ArraysOver(1..MaxRefLabel)
GenArrays == ArraysOver(1..MaxGenLabel)

\* value repeated n times
Repeat(value, n) == [k \in 1..n |-> value]

\* the arrays of tests/test_insight.py
TestReference == Repeat(1, 40) \o Repeat(2, 20) \o Repeat(1, 40)
TestPerfect == Repeat(1, 40) \o Repeat(2, 20) \o Repeat(3, 20) \o Repeat(4, 20)
TestPartialSingle == Repeat(1, 40) \o Repeat(2, 30) \o Repeat(3, 10) \o Repeat(4, 20)
TestPartialMultiple == Repeat(1, 40) \o Repeat(2, 10) \o Repeat(3, 10) \o Repeat(4, 40)
TestNoDomain == <<Repeat(1, 40), Repeat(1, 20) \o Repeat(2, 20)>>
TestDifferent == <<TestReference, Repeat(1, 40) \o Repeat(2, 20)>>

MJArguments ==
    {a \in RefArrays \X GenArrays : Len(a[1]) = Len(a[2]) \/ Len(a[1]) + Len(a[2]) <= 3}
        \cup {<<TestReference, TestPerfect>>, <<TestReference, TestPartialSingle>>,
              <<TestReference, TestPartialMultiple>>, TestNoDomain, TestDifferent}

(***************************************************************************)
(* SuperNetwork.__init__ (insight.py lines 25-87) against the store.  A    *)
(* construction is two steps, split where it goes to the store: the lookup *)
(* of line 33, and on a miss everything from line 40 to the deposit.       *)
(***************************************************************************)
Procs == 1..NumProcs
PartitionIds == {1, 2}
Pdbref == "1ubq"

NoPFAM == << 0 >>      \* getPFAMDomainArray raises ValueError
NoDoc == [doctype |-> "none", pdbref |-> "", partitionid |-> 0,
          level |-> 0, data |-> << >>]

\* database.extractSuperNetwork(pdbref, partitionid): a document deposited
\* under that pair, None when there is none
extractSuperNetwork(docs, pdbref, partitionid) ==
    LET matching == {k \in 1..Len(docs) :
                        docs[k].pdbref = pdbref /\ docs[k].partitionid = partitionid}
    IN  IF matching = {} THEN {NoDoc} ELSE {docs[k] : k \in matching}

\* database.depositSuperNetwork(pdbref, partitionid, level, data)
depositSuperNetwork(docs, pdbref, partitionid, level, data) ==
    Append(docs, [doctype |-> "supernetwork", pdbref |-> pdbref,
                  partitionid |-> partitionid, level |-> level, data |-> data])

\* line 35: "if doc:" -- a document is a non-empty dict, None is falsy
FoundWithData(doc) == doc # NoDoc /\ doc.data # << >>
Found(doc) == doc # NoDoc

\* line 59: jaccard > maxJaccard (nan compares False)
Exceeds(jaccard, maxJaccard) ==
    /\ jaccard.status = "score"
    /\ jaccard.score.num * maxJaccard.den > maxJaccard.num * jaccard.score.den

\* lines 52-61: the levels from index i on; the result is maxI
RECURSIVE BestLevel(_, _, _, _, _)
BestLevel(pfamDomains, partition, i, maxJaccard, maxI) ==
    IF i >= Len(partition) THEN maxI
    ELSE LET jaccard == getModifiedJaccard(pfamDomains, partition[i + 1])
         IN  IF Exceeds(jaccard, maxJaccard)
                 THEN BestLevel(pfamDomains, partition, i + 1, jaccard.score, i)
             ELSE BestLevel(pfamDomains, partition, i + 1, maxJaccard, maxI)

\* partition[maxI] of line 64: a Python list takes -1 as its last index
ListAt(list, index) == IF index < 0 THEN list[Len(list) + 1 + index] ELSE list[index + 1]

\* lines 70-77 with the reverse orientation never looked up
AddEdgeAsSeen(communityEdgeList, com_i, com_j) ==
    IF com_i = com_j THEN communityEdgeList
    ELSE IF <<com_i, com_j>> \notin DOMAIN communityEdgeList
        THEN communityEdgeList @@ (<<com_i, com_j>> :> 1)
    ELSE [communityEdgeList EXCEPT ![<<com_i, com_j>>] = @ + 1]

\* lines 70-77 with the key put in numeric order
AddEdgeCanonical(communityEdgeList, com_i, com_j) ==
    LET key == IF com_i < com_j THEN <<com_i, com_j>> ELSE <<com_j, com_i>>
    IN  IF com_i = com_j THEN communityEdgeList
        ELSE IF key \notin DOMAIN communityEdgeList
            THEN communityEdgeList @@ (key :> 1)
        ELSE [communityEdgeList EXCEPT ![key] = @ + 1]

\* lines 70-77: one fine edge between communities com_i and com_j
AddEdge(communityEdgeList, com_i, com_j) ==
    LET keys == DOMAIN communityEdgeList
        Bump(key) == [communityEdgeList EXCEPT ![key] = @ + 1]
    IN  IF com_i = com_j THEN communityEdgeList
        ELSE IF <<com_i, com_j>> \notin keys
            THEN IF <<com_j, com_i>> \in keys THEN Bump(<<com_j, com_i>>)
                 ELSE communityEdgeList @@ (<<com_i, com_j>> :> 1)
        ELSE Bump(<<com_i, com_j>>)

\* lines 68-77: the edges from the k-th on, accumulated into the dict
RECURSIVE Accumulate(_, _, _, _)
Accumulate(edges, partition, k, communityEdgeList) ==
    IF k > Len(edges) THEN communityEdgeList
    ELSE Accumulate(edges, partition, k + 1,
                    AddEdge(communityEdgeList,
                            partition[edges[k][1]], partition[edges[k][2]]))

\* list order of [i, j, weight] rows
RowBefore(a, b) ==
    \/ a[1] < b[1]
    \/ a[1] = b[1] /\ a[2] < b[2]
    \/ a[1] = b[1] /\ a[2] = b[2] /\ a[3] <= b[3]

\* lines 79-83: the rows of the dict, sorted
RECURSIVE SortRows(_)
SortRows(rows) ==
    IF rows = {} THEN << >>
    ELSE LET first == CHOOSE r \in rows : \A q \in rows : RowBefore(r, q)
         IN  <<first>> \o SortRows(rows \ {first})

\* lines 79-83 with the rows sorted the other way round
communityEdgeListReversed(communityEdgeList) ==
    LET rows == SortRows({<<key[1], key[2], communityEdgeList[key]>> :
                             key \in DOMAIN communityEdgeList})
    IN  [r \in 1..Len(rows) |-> rows[Len(rows) + 1 - r]]

communityEdgeListSorted(communityEdgeList) ==
    SortRows({<<key[1], key[2], communityEdgeList[key]>> :
                 key \in DOMAIN communityEdgeList})

EmptyDict == [key \in {} |-> 0]

\* lines 52-85: level and data of a supernetwork built anew
BuildSuperNetwork(pfamDomains, partition, edges) ==
    LET maxI == BestLevel(pfamDomains, partition, 0, [num |-> -1, den |-> 1], -1)
    IN  [level |-> maxI,
         data |-> communityEdgeListSorted(
                      Accumulate(edges, ListAt(partition, maxI), 1, EmptyDict))]

(***************************************************************************)
(* The protein of the store: its reference array, the levels of its two    *)
(* partitions and its fine edge list.                                      *)
(***************************************************************************)
Nodes == 1..NumNodes

\* a partition level: the labels that occur are 1..K
LevelArrays ==
    {a \in [Nodes -> Nodes] : Values(a) = 1..Cardinality(Values(a))}

LevelSeqs(maxlen) == UNION {[1..n -> LevelArrays] : n \in 1..maxlen}

PFAMArrays == [Nodes -> 1..2] \cup {NoPFAM}

\* fine edges (i, j, weight) between distinct nodes: every pair once, one
\* pair in both orders and once with another weight
FineEdges == {<<e[1], e[2], 1>> : e \in {x \in Nodes \X Nodes : x[1] < x[2]}}
                \cup {<<2, 1, 1>>, <<1, 2, 7>>}

EdgeLists(maxlen) == UNION {[1..n -> FineEdges] : n \in 0..maxlen}

\* the second partition puts every node in a community of its own
UnitLevels == << [k \in Nodes |-> k] >>

SomeEdges == << <<1, 2, 1>>, <<3, 2, 1>> >>
SomePFAM == [k \in Nodes |-> IF k = 1 THEN 1 ELSE 2]

\* the levels and the reference array vary
LevelWorlds(maxlen) ==
    {[pfam |-> f, levels |-> l, edges |-> SomeEdges] :
        f \in PFAMArrays, l \in LevelSeqs(maxlen)}

\* the level and the edge list vary
EdgeWorlds(maxlen) ==
    {[pfam |-> SomePFAM, levels |-> <<a>>, edges |-> e] :
        a \in LevelArrays, e \in EdgeLists(maxlen)}

\* for the traffic with the store: one level, with and without a reference
StoreWorlds ==
    {[pfam |-> f, levels |-> <<a>>, edges |-> SomeEdges] :
        f \in {SomePFAM, NoPFAM}, a \in LevelArrays}

(***************************************************************************)
(* Initial states, actions and specifications.                             *)
(***************************************************************************)
MCSIdle ==
    /\ mcsPhase = "idle"
    /\ mcsG1 = NotAGraph
    /\ mcsG2 = NotAGraph
    /\ mcsRet = MCSNone(0)

MJIdle ==
    /\ mjPhase = "idle"
    /\ expectedArray = << >>
    /\ generatedArray = << >>
    /\ mjRet = [status |-> "none", score |-> [num |-> 0, den |-> 1]]

NoSuperNetwork == [partitionid |-> 0, level |-> 0, data |-> << >>, error |-> "",
                   cached |-> FALSE]

SNIdle ==
    /\ pfamArray = NoPFAM
    /\ levels = << >>
    /\ edgelist = << >>
    /\ store = << >>
    /\ pc = [p \in Procs |-> "idle"]
    /\ sn = [p \in Procs |-> NoSuperNetwork]
    /\ reads = [p \in Procs |-> 0]
    /\ scored = [p \in Procs |-> 0]

NoSubset == [given |-> FALSE, docs |-> << >>]
NoList == [status |-> "none", rows |-> << >>]

WIIdle ==
    /\ wiPhase = "idle"
    /\ wiData = << >>
    /\ wiSubset = NoSubset
    /\ wiConsulted = FALSE
    /\ wiRet = NoList

NoArray == [status |-> "none", array |-> << >>]

NMIdle ==
    /\ nmPhase = "idle"
    /\ nmPartition = << >>
    /\ nmRet = NoArray

NoZScore == [status |-> "none", diff |-> [num |-> 0, den |-> 1],
             variance |-> [num |-> 1, den |-> 1]]

ZSIdle ==
    /\ zsPhase = "idle"
    /\ zsExpected = << >>
    /\ zsGenerated = << >>
    /\ zsTrials = 0
    /\ zsScores = << >>
    /\ zsRet = NoZScore

\* the functions that are not being called
RestIdle == WIIdle /\ NMIdle /\ ZSIdle

InitMCS ==
    /\ mcsPhase = "call"
    /\ \E args \in MCSArguments : mcsG1 = args[1] /\ mcsG2 = args[2]
    /\ mcsRet = MCSNone(0)
    /\ MJIdle
    /\ SNIdle
    /\ RestIdle

\* one call getMCS(mcsG1, mcsG2)
CallMCS ==
    /\ mcsPhase = "call"
    /\ mcsRet' = getMCS(mcsG1, mcsG2)
    /\ mcsPhase' = "done"
    /\ UNCHANGED <<mcsG1, mcsG2, mjVars, worldVars, snVars, wiVars, nmVars, zsVars>>

NextMCS == CallMCS

SpecMCS == InitMCS /\ [][NextMCS]_vars

InitMJ ==
    /\ MCSIdle
    /\ mjPhase = "call"
    /\ \E args \in MJArguments : expectedArray = args[1] /\ generatedArray = args[2]
    /\ mjRet = [status |-> "none", score |-> [num |-> 0, den |-> 1]]
    /\ SNIdle
    /\ RestIdle

\* one call getModifiedJaccard(expectedArray, generatedArray)
CallMJ ==
    /\ mjPhase = "call"
    /\ mjRet' = getModifiedJaccard(expectedArray, generatedArray)
    /\ mjPhase' = "done"
    /\ UNCHANGED <<expectedArray, generatedArray, mcsVars, worldVars, snVars,
                 wiVars, nmVars, zsVars>>

NextMJ == CallMJ

SpecMJ == InitMJ /\ [][NextMJ]_vars

\* the protein is one of worlds, the store is empty and the constructions
\* of active are about to be made
InitWith(worlds, active) ==
    /\ MCSIdle
    /\ MJIdle
    /\ \E w \in worlds :
          /\ pfamArray = w.pfam
          /\ levels = <<w.levels, UnitLevels>>
          /\ edgelist = w.edges
    /\ store = << >>
    /\ pc = [p \in Procs |-> IF p \in active THEN "new" ELSE "idle"]
    /\ sn = [p \in Procs |-> NoSuperNetwork]
    /\ reads = [p \in Procs |-> 0]
    /\ scored = [p \in Procs |-> 0]
    /\ RestIdle

Init == InitWith(StoreWorlds, Procs)
InitLevels == InitWith(LevelWorlds(MaxLevels), {1})
InitEdges == InitWith(EdgeWorlds(MaxEdges), {1})

\* lines 28-38: SuperNetwork(inputpartition) for partition pid, up to the test
\* of the document the store returned
Lookup(p, pid) ==
    /\ pc[p] = "new"
    /\ \E doc \in extractSuperNetwork(store, Pdbref, pid) :
          IF Found(doc)
              THEN /\ sn' = [sn EXCEPT ![p] = [partitionid |-> pid, level |-> doc.level,
                                              data |-> doc.data, error |-> "",
                                              cached |-> TRUE]]
                   /\ pc' = [pc EXCEPT ![p] = "done"]
              ELSE /\ sn' = [sn EXCEPT ![p].partitionid = pid]
                   /\ pc' = [pc EXCEPT ![p] = "miss"]
    /\ UNCHANGED <<store, reads, scored, worldVars, mcsVars, mjVars,
                 wiVars, nmVars, zsVars>>

\* lines 45-50 with the exception swallowed
PFAMErrorSwallowed(pfamDomains) == ""

\* lines 45-50: the ValueError of getPFAMDomainArray is raised again
PFAMError(pfamDomains) == IF pfamDomains = NoPFAM THEN "ValueError" ELSE ""

\* lines 40-87 with the store asked again before the deposit
BuildUnlessDeposited(p) ==
    /\ pc[p] = "miss"
    /\ reads' = [reads EXCEPT ![p] = @ + 1]
    /\ IF PFAMError(pfamArray) # ""
           THEN /\ sn' = [sn EXCEPT ![p].error = PFAMError(pfamArray)]
                /\ pc' = [pc EXCEPT ![p] = "failed"]
                /\ UNCHANGED <<store, scored>>
           ELSE LET partition == levels[sn[p].partitionid]
                    built == BuildSuperNetwork(pfamArray, partition, edgelist)
                IN  /\ scored' = [scored EXCEPT ![p] = @ + Len(partition)]
                    /\ sn' = [sn EXCEPT ![p].level = built.level,
                                        ![p].data = built.data]
                    /\ store' =
                          IF extractSuperNetwork(store, Pdbref, sn[p].partitionid) = {NoDoc}
                              THEN depositSuperNetwork(store, Pdbref, sn[p].partitionid,
                                                       built.level, built.data)
                          ELSE store
                    /\ pc' = [pc EXCEPT ![p] = "done"]
    /\ UNCHANGED <<worldVars, mcsVars, mjVars, wiVars, nmVars, zsVars>>

\* lines 40-87: the miss branch
Build(p) ==
    /\ pc[p] = "miss"
    /\ reads' = [reads EXCEPT ![p] = @ + 1]
    /\ IF PFAMError(pfamArray) # ""
           THEN /\ sn' = [sn EXCEPT ![p].error = PFAMError(pfamArray)]
                /\ pc' = [pc EXCEPT ![p] = "failed"]
                /\ UNCHANGED <<store, scored>>
           ELSE LET partition == levels[sn[p].partitionid]
                    built == BuildSuperNetwork(pfamArray, partition, edgelist)
                IN  /\ scored' = [scored EXCEPT ![p] = @ + Len(partition)]
                    /\ sn' = [sn EXCEPT ![p].level = built.level,
                                        ![p].data = built.data]
                    /\ store' = depositSuperNetwork(store, Pdbref, sn[p].partitionid,
                                                    built.level, built.data)
                    /\ pc' = [pc EXCEPT ![p] = "done"]
    /\ UNCHANGED <<worldVars, mcsVars, mjVars, wiVars, nmVars, zsVars>>

Next ==
    \/ \E p \in Procs, pid \in PartitionIds : Lookup(p, pid)
    \/ \E p \in Procs : Build(p)

Spec == Init /\ [][Next]_vars
SpecLevels == InitLevels /\ [][Next]_vars
SpecEdges == InitEdges /\ [][Next]_vars

(***************************************************************************)
(* Properties of getMCS.                                                   *)
(***************************************************************************)
\* the subsets of S with exactly k members
RECURSIVE KSubsets(_, _)
KSubsets(S, k) ==
    IF k = 0 THEN {{}}
    ELSE IF Cardinality(S) < k THEN {}
    ELSE LET x == CHOOSE y \in S : TRUE
         IN  {T \cup {x} : T \in KSubsets(S \ {x}, k - 1)} \cup KSubsets(S \ {x}, k)

\* the subgraph of G induced by the node set S
Induced(G, S) ==
    MkGraph(G.kind, S, {e \in G.edges : e[1] \in S /\ e[2] \in S})

IsInducedSubgraphOf(H, G) == H.nodes \subseteq G.nodes /\ H = Induced(G, H.nodes)

\* H is isomorphic to a node-induced subgraph of G
EmbedsInduced(H, G) ==
    \E S \in KSubsets(G.nodes, Cardinality(H.nodes)) : is_isomorphic(H, Induced(G, S))

\* A and B have isomorphic node-induced subgraphs of k nodes
CommonInduced(A, B, k) ==
    \E S \in KSubsets(A.nodes, k) : EmbedsInduced(Induced(A, S), B)

MCSDone == mcsPhase = "done"

BothUndirected == mcsG1.kind = "Graph" /\ mcsG2.kind = "Graph"

LargerCount == number_of_nodes(Larger(mcsG1, mcsG2))
SmallerCount == number_of_nodes(Smaller(mcsG1, mcsG2))

WithinGuard == LargerCount <= MaxExactNodes

IsSingleNode(G) == G.kind = "Graph" /\ number_of_nodes(G) = 1 /\ G.edges = {}

\* the nodes of G are labelled 0..n-1, as nx.convert_node_labels_to_integers
\* leaves them
RangeLabelled(G) == G.nodes = 0..(number_of_nodes(G) - 1)

\* C1: for two non-empty undirected graphs whose larger node count is at most
\* 25, getMCS returns a node-induced subgraph of the smaller graph that is
\* isomorphic to a node-induced subgraph of the larger one, and the two graphs
\* have no isomorphic node-induced subgraphs with more nodes.
C1_MaximumCommonSubgraph ==
    (MCSDone /\ BothUndirected /\ SmallerCount >= 1 /\ WithinGuard) =>
        /\ mcsRet.status = "graph"
        /\ IsInducedSubgraphOf(mcsRet.graph, Smaller(mcsG1, mcsG2))
        /\ EmbedsInduced(mcsRet.graph, Larger(mcsG1, mcsG2))
        /\ \A k \in (number_of_nodes(mcsRet.graph) + 1)..SmallerCount :
              ~CommonInduced(Smaller(mcsG1, mcsG2), Larger(mcsG1, mcsG2), k)

\* C2: for two isomorphic (non-empty) undirected graphs of at most 25 nodes,
\* whatever their node labels, getMCS returns a graph isomorphic to both.
C2_IsomorphicInputs ==
    (/\ MCSDone /\ BothUndirected /\ SmallerCount >= 1 /\ WithinGuard
     /\ is_isomorphic(mcsG1, mcsG2)) =>
        /\ mcsRet.status = "graph"
        /\ is_isomorphic(mcsRet.graph, mcsG1)
        /\ is_isomorphic(mcsRet.graph, mcsG2)

\* C3: when one argument is a single isolated node (of any label) and the
\* other a non-empty undirected graph of at most 25 nodes, getMCS returns a
\* graph with exactly one node and no edge, in either argument order.
C3_SingleNode ==
    (/\ MCSDone /\ BothUndirected /\ SmallerCount >= 1 /\ WithinGuard
     /\ (IsSingleNode(mcsG1) \/ IsSingleNode(mcsG2))) =>
        /\ mcsRet.status = "graph"
        /\ number_of_nodes(mcsRet.graph) = 1
        /\ mcsRet.graph.edges = {}

\* C4: applied to two graphs, getMCS raises ValueError exactly when the larger
\* of the two has more than 25 nodes, whatever the argument order and the
\* size of the smaller graph, and it raises before any isomorphism test is
\* run on any subset.
C4_SizeGuard ==
    (MCSDone /\ mcsG1.kind # "str" /\ mcsG2.kind # "str") =>
        /\ (mcsRet.status = "ValueError") <=> (LargerCount > MaxExactNodes)
        /\ (mcsRet.status = "ValueError") => (mcsRet.tests = 0)

\* the guard has fired with the large graph as second argument and a smaller
\* graph of three nodes, and the search has run at exactly 25 nodes
C4_Witness ==
    \/ /\ MCSDone /\ mcsG2 = OverGuard /\ number_of_nodes(mcsG1) = 3
       /\ mcsRet.status = "ValueError"
    \/ /\ MCSDone /\ mcsG1 = AtGuard /\ number_of_nodes(mcsG2) = 2
       /\ mcsRet.status = "graph" /\ mcsRet.tests > 0

\* C5: getMCS raises TypeError whenever one of its arguments is not an
\* undirected graph (a directed graph, a string), and returns no graph then.
C5_TypeError ==
    (MCSDone /\ ~BothUndirected) => mcsRet.status = "TypeError"

\* On graphs labelled 0..n-1, the labels getWeakIsomorphs hands over, the
\* search does return a maximum common induced subgraph.
MCSCorrectOnRangeLabels ==
    (/\ MCSDone /\ BothUndirected /\ SmallerCount >= 1 /\ WithinGuard
     /\ RangeLabelled(mcsG1) /\ RangeLabelled(mcsG2)) =>
        /\ mcsRet.status = "graph"
        /\ IsInducedSubgraphOf(mcsRet.graph, Smaller(mcsG1, mcsG2))
        /\ EmbedsInduced(mcsRet.graph, Larger(mcsG1, mcsG2))
        /\ \A k \in (number_of_nodes(mcsRet.graph) + 1)..SmallerCount :
              ~CommonInduced(Smaller(mcsG1, mcsG2), Larger(mcsG1, mcsG2), k)

(***************************************************************************)
(* Properties of getModifiedJaccard.                                       *)
(***************************************************************************)
MJDone == mjPhase = "done"

SameLength == Len(expectedArray) = Len(generatedArray)

Positions == 1..Len(expectedArray)

\* I_c = |{pos : generated = c and reference = d}|
OverlapI(d, c) ==
    Cardinality({pos \in Positions : generatedArray[pos] = c /\ expectedArray[pos] = d})

\* U_c = |{pos : generated = c or reference = d}|
OverlapU(d, c) ==
    Cardinality({pos \in Positions : generatedArray[pos] = c \/ expectedArray[pos] = d})

\* the communities that share a position with domain d
Overlapping(d) == {c \in Values(generatedArray) : OverlapI(d, c) > 0}

\* sum over the overlapping communities c of (I_c/U_c) * (I_c / sum of I)
ClaimedDomainScore(d) ==
    LET sumI == IntSum([c \in Overlapping(d) |-> OverlapI(d, c)], Overlapping(d))
    IN  FracSum([c \in Overlapping(d) |->
                    Frac(OverlapI(d, c) * OverlapI(d, c), OverlapU(d, c) * sumI)],
                Overlapping(d))

\* the unweighted mean of the domain scores over the labels D
ClaimedMean(D) ==
    FracDiv(FracSum([d \in D |-> ClaimedDomainScore(d)], D), Cardinality(D))

MaxOf(S) == CHOOSE x \in S : \A y \in S : y <= x

\* C6 as stated: on equal-length arrays whose reference has at least two
\* labels, one of them beyond 1, getModifiedJaccard returns the unweighted
\* mean of the domain scores over every label d in 2..max(reference).
C6_MeanOverLabelsUpToMax ==
    (/\ MJDone /\ SameLength /\ Cardinality(Values(expectedArray)) >= 2) =>
        mjRet = MJScore(ClaimedMean(2..MaxOf(Values(expectedArray))))

\* C6 as amended: on equal-length arrays whose reference has K >= 2 distinct
\* labels, getModifiedJaccard returns the unweighted mean of the domain scores
\* over the labels d in 2..K (a label of that range that occurs nowhere
\* scores 0); it returns 2/3 and 1/2 on the two arrays of the tests.
C6_MeanOverDistinctLabelCount ==
    /\ (/\ MJDone /\ SameLength /\ Cardinality(Values(expectedArray)) >= 2) =>
          mjRet = MJScore(ClaimedMean(2..Cardinality(Values(expectedArray))))
    /\ (MJDone /\ expectedArray = TestReference /\ generatedArray = TestPartialSingle) =>
          mjRet = MJScore([num |-> 2, den |-> 3])
    /\ (MJDone /\ expectedArray = TestReference /\ generatedArray = TestPartialMultiple) =>
          mjRet = MJScore([num |-> 1, den |-> 2])

\* a domain split over two communities has been scored
C6_Witness ==
    /\ MJDone
    /\ expectedArray = TestReference
    /\ generatedArray = TestPartialMultiple
    /\ Cardinality(Overlapping(2)) = 2
    /\ mjRet = MJScore([num |-> 1, den |-> 2])

\* some community occupies exactly the positions of domain 2
DomainIsOneCommunity ==
    \E c \in Values(generatedArray) :
        {pos \in Positions : generatedArray[pos] = c}
            = {pos \in Positions : expectedArray[pos] = 2}

\* C7: when the reference has the baseline and the single domain 2, and one
\* community occupies exactly the positions of that domain, the score is
\* exactly 1 however the other positions are split into communities.
C7_PerfectOverlap ==
    (/\ MJDone /\ SameLength /\ Values(expectedArray) = {1, 2}
     /\ DomainIsOneCommunity) =>
        mjRet = MJScore([num |-> 1, den |-> 1])

\* a perfect overlap has been scored with the baseline positions split over
\* two further communities
C7_Witness ==
    /\ MJDone /\ SameLength /\ Values(expectedArray) = {1, 2}
    /\ DomainIsOneCommunity
    /\ Cardinality(Values(generatedArray)) = 3
    /\ mjRet = MJScore([num |-> 1, den |-> 1])

\* C8: getModifiedJaccard raises ValueError when the arrays differ in length,
\* when either is empty and when the reference holds only the baseline label.
C8_ValueError ==
    (/\ MJDone
     /\ \/ ~SameLength
        \/ Len(expectedArray) = 0
        \/ Len(generatedArray) = 0
        \/ Values(expectedArray) \subseteq {1}) =>
        mjRet.status = "ValueError"

(***************************************************************************)
(* Properties of SuperNetwork construction.                                *)
(***************************************************************************)
\* the documents the store holds for partition pid
Deposited(pid) ==
    {store[k] : k \in {m \in 1..Len(store) :
                          store[m].pdbref = Pdbref /\ store[m].partitionid = pid}}

\* construction p has returned with a supernetwork it built itself
BuiltAnew(p) == pc[p] = "done" /\ ~sn[p].cached

\* C9: once a supernetwork has been deposited for a (protein, partition id)
\* pair, a construction for that pair that goes to the store afterwards
\* returns the stored data and level, reads no edge list, scores no level and
\* deposits nothing; having returned, it does nothing more.
C9_ComputedOncePerPair ==
    [][\A p \in Procs :
          /\ (pc[p] = "new" /\ pc'[p] # "new"
              /\ Deposited(sn'[p].partitionid) # {}) =>
                 /\ pc'[p] = "done"
                 /\ \E doc \in Deposited(sn'[p].partitionid) :
                       sn'[p].data = doc.data /\ sn'[p].level = doc.level
                 /\ store' = store
                 /\ reads'[p] = 0
                 /\ scored'[p] = 0
          /\ (pc[p] = "done" /\ sn[p].cached) =>
                 (pc'[p] = pc[p] /\ sn'[p] = sn[p] /\ reads'[p] = 0 /\ scored'[p] = 0)
      ]_vars

\* one construction has built and deposited a supernetwork with edges, and a
\* later one for the same pair has taken it from the store
C9_Witness ==
    \E p, q \in Procs :
        /\ BuiltAnew(q)
        /\ pc[p] = "done" /\ sn[p].cached
        /\ sn[p].partitionid = sn[q].partitionid
        /\ sn[p].data = sn[q].data /\ sn[p].level = sn[q].level
        /\ sn[p].data # << >>
        /\ Len(store) = 1

\* the modified Jaccard of level index i (from 0) of partition pid
LevelScore(pid, i) == getModifiedJaccard(pfamArray, levels[pid][i + 1])

ScoreLess(x, y) == x.score.num * y.score.den < y.score.num * x.score.den

\* level index best of partition pid has the greatest score, and every
\* earlier level a strictly smaller one
IsFirstMaximum(pid, best) ==
    /\ best \in 0..(Len(levels[pid]) - 1)
    /\ LevelScore(pid, best).status = "score"
    /\ \A i \in 0..(Len(levels[pid]) - 1) :
          /\ LevelScore(pid, i).status = "score"
          /\ ~ScoreLess(LevelScore(pid, best), LevelScore(pid, i))
          /\ i < best => ScoreLess(LevelScore(pid, i), LevelScore(pid, best))

\* C10: a supernetwork built on a miss records the level whose modified
\* Jaccard is greatest, the one of smallest index among equals, and the level
\* recorded is always an index of the partition's level sequence.
C10_FirstMaximalLevel ==
    \A p \in Procs :
        BuiltAnew(p) => IsFirstMaximum(sn[p].partitionid, sn[p].level)

\* When the reference array has two distinct labels or more, so that every
\* level gets a score, the level recorded is the first of greatest score.
LevelSelectionOnScoredLevels ==
    \A p \in Procs :
        (BuiltAnew(p) /\ Cardinality(Values(pfamArray)) >= 2) =>
            IsFirstMaximum(sn[p].partitionid, sn[p].level)

\* a later level with a strictly greater score has been selected, and a tie
\* has been resolved to the earlier level
LevelSelectionWitness ==
    \E p \in Procs :
        /\ BuiltAnew(p) /\ Cardinality(Values(pfamArray)) >= 2
        /\ sn[p].level = 1

(***************************************************************************)
(* Properties of the coarse edge list.                                     *)
(***************************************************************************)
\* the level array construction p collapsed the fine edges with
UsedLevel(p) == ListAt(levels[sn[p].partitionid], sn[p].level)

\* the fine edges, of either orientation, between communities a and b
Crossing(p, a, b) ==
    {k \in 1..Len(edgelist) :
        {UsedLevel(p)[edgelist[k][1]], UsedLevel(p)[edgelist[k][2]]} = {a, b}}

\* the triples of p's data that join communities a and b
RowsJoining(p, a, b) ==
    {r \in 1..Len(sn[p].data) : {sn[p].data[r][1], sn[p].data[r][2]} = {a, b}}

\* C11: in a supernetwork built anew, every pair of distinct communities with
\* a crossing fine edge has exactly one triple, whose weight is the number of
\* crossing fine edges (either orientation, whatever their weights); no triple
\* joins a community to itself and none joins a pair without a crossing edge.
C11_CrossingEdgeCounts ==
    \A p \in Procs :
        BuiltAnew(p) =>
            /\ \A a, b \in Nodes :
                  (a < b /\ Crossing(p, a, b) # {}) =>
                      \E r \in RowsJoining(p, a, b) :
                          /\ RowsJoining(p, a, b) = {r}
                          /\ sn[p].data[r][3] = Cardinality(Crossing(p, a, b))
            /\ \A r \in 1..Len(sn[p].data) :
                  /\ sn[p].data[r][1] # sn[p].data[r][2]
                  /\ Crossing(p, sn[p].data[r][1], sn[p].data[r][2]) # {}

\* a pair of communities crossed by fine edges of both orientations, one of
\* them of weight 7, has got a triple of weight two or more, while another
\* fine edge stays inside a community
C11_Witness ==
    \E p \in Procs :
        /\ BuiltAnew(p)
        /\ \E r \in 1..Len(sn[p].data) : sn[p].data[r][3] >= 2
        /\ \E k, l \in 1..Len(edgelist) :
              /\ UsedLevel(p)[edgelist[k][1]] = UsedLevel(p)[edgelist[l][2]]
              /\ UsedLevel(p)[edgelist[k][2]] = UsedLevel(p)[edgelist[l][1]]
              /\ UsedLevel(p)[edgelist[k][1]] # UsedLevel(p)[edgelist[k][2]]
              /\ edgelist[k][3] = 7

(***************************************************************************)
(* Properties of a construction without a reference array.                 *)
(***************************************************************************)
\* C12: when the reference-domain array cannot be derived, a construction
\* that missed the store fails with ValueError, has scored no level and
\* deposits nothing, and a lookup for the pair made afterwards finds nothing.
C12_NoReferenceNoDeposit ==
    [][\A p \in Procs :
          /\ (pfamArray = NoPFAM /\ pc[p] = "miss" /\ pc'[p] # "miss") =>
                 /\ pc'[p] = "failed"
                 /\ sn'[p].error = "ValueError"
                 /\ scored'[p] = 0
                 /\ store' = store
                 /\ extractSuperNetwork(store', Pdbref, sn[p].partitionid) = {NoDoc}
          /\ (pfamArray = NoPFAM /\ pc[p] = "new" /\ pc'[p] # "new") =>
                 (pc'[p] = "miss" /\ store' = << >>)
      ]_vars

\* one construction has failed for want of a reference array, and a later
\* one for the same pair has found the store without a supernetwork
C12_Witness ==
    \E p, q \in Procs :
        /\ pfamArray = NoPFAM
        /\ pc[p] = "failed" /\ sn[p].error = "ValueError"
        /\ pc[q] = "miss" /\ sn[q].partitionid = sn[p].partitionid
        /\ reads[q] = 0
        /\ store = << >>

(***************************************************************************)
(* SuperNetwork.getWeakIsomorphs (insight.py lines 149-192).               *)
(***************************************************************************)
\* the m-th endpoint named by the rows [i, j, weight], in the order add_edge
\* meets them
EndpointAt(data, m) == data[(m + 1) \div 2][IF m % 2 = 1 THEN 1 ELSE 2]

EndpointsOf(data) == {EndpointAt(data, m) : m \in 1..(2 * Len(data))}

FirstSeen(data, v) ==
    LET seen == {m \in 1..(2 * Len(data)) : EndpointAt(data, m) = v}
    IN  CHOOSE m \in seen : \A l \in seen : m <= l

\* nx.convert_node_labels_to_integers: the nodes are numbered from 0 in the
\* order the graph got them, so a node's number is the count of nodes met
\* before it
convert_node_labels_to_integers(data, v) ==
    Cardinality({EndpointAt(data, l) : l \in 1..(FirstSeen(data, v) - 1)})

\* lines 157-161 and 172-176: the graph of the rows, relabelled
GraphOfRows(data) ==
    MkGraph("Graph",
            {convert_node_labels_to_integers(data, v) : v \in EndpointsOf(data)},
            Symmetric({<<convert_node_labels_to_integers(data, data[r][1]),
                         convert_node_labels_to_integers(data, data[r][2])>> :
                           r \in 1..Len(data)}))

\* database.extractAllSuperNetworks(pdbref): the supernetworks the store holds
\* for the protein reference
extractAllSuperNetworks(docs, pdbref) ==
    SelectSeq(docs, LAMBDA doc : doc.pdbref = pdbref)

\* line 166, subset.any(): an array of documents has a truthy member as soon
\* as it has a member
any(subset) == Len(subset.docs) > 0

\* line 182, "if MCS:": None is falsy, a graph is truthy when it has nodes
Truthy(MCS) == MCS.status = "graph" /\ number_of_nodes(MCS.graph) > 0

\* lines 182-186
Similarity(MCS, G, G2) ==
    IF Truthy(MCS)
        THEN Frac(number_of_nodes(MCS.graph),
                  IF number_of_nodes(G) > number_of_nodes(G2)
                      THEN number_of_nodes(G) ELSE number_of_nodes(G2))
    ELSE Frac(0, 1)

\* line 188 with the threshold itself let through
AtLeastThreshold(similarity) == 2 * similarity.num >= similarity.den

\* line 188: similarity > 0.5
AboveThreshold(similarity) == 2 * similarity.num > similarity.den

\* lines 178-181 with no exception caught
CaughtNone(exc) == FALSE

\* lines 178-181: except ValueError: continue
Caught(exc) == exc = "ValueError"

\* line 190, str(similarity): the decimal text of the number
str(similarity) == [type |-> "str", text |-> similarity]

WIList(rows) == [status |-> "list", rows |-> rows]
WIRaise(exc) == [status |-> exc, rows |-> << >>]

\* lines 171-190: the candidates from the k-th on
RECURSIVE ScanProteins(_, _, _, _, _)
ScanProteins(pdbref, G, proteins, k, weakIsomorphs) ==
    IF k > Len(proteins) THEN WIList(weakIsomorphs)
    ELSE LET protein == proteins[k]
             G2 == GraphOfRows(protein.data)
             MCS == getMCS(G, G2)
             similarity == Similarity(MCS, G, G2)
         IN  IF MCS.status \notin {"graph", "None"}
                 THEN IF Caught(MCS.status)
                          THEN ScanProteins(pdbref, G, proteins, k + 1, weakIsomorphs)
                      ELSE WIRaise(MCS.status)
             ELSE IF AboveThreshold(similarity)
                 THEN ScanProteins(pdbref, G, proteins, k + 1,
                          Append(weakIsomorphs,
                                 <<pdbref, protein.pdbref, str(similarity)>>))
             ELSE ScanProteins(pdbref, G, proteins, k + 1, weakIsomorphs)

\* line 166 asks the subset for .any(): None has no such attribute
consultsStore(subset) == subset.given /\ ~any(subset)

getWeakIsomorphs(pdbref, data, subset, docs) ==
    IF ~subset.given THEN WIRaise("AttributeError")
    ELSE ScanProteins(pdbref, GraphOfRows(data),
                      IF any(subset) THEN subset.docs
                      ELSE extractAllSuperNetworks(docs, pdbref),
                      1, << >>)

(***************************************************************************)
(* The supernetworks getWeakIsomorphs is tried on.                         *)
(***************************************************************************)
MaxCommunities == 3   \* the swept supernetworks join communities 1..MaxCommunities
MaxCandidates == 3    \* a subset array has at most this many documents

OtherPdbref == "2abc"

SuperNetworkDoc(pdbref, data) ==
    [doctype |-> "supernetwork", pdbref |-> pdbref, partitionid |-> 1,
     level |-> 0, data |-> data]

\* the sorted triples of every graph on the communities 1..MaxCommunities
SweptRows ==
    {SortRows({<<e[1], e[2], 1>> : e \in es}) :
        es \in SUBSET PairsOf(1..MaxCommunities)}

EmptyRows == << >>
EdgeRows == << <<2, 1, 3>> >>
TriangleRows == << <<1, 2, 1>>, <<1, 3, 2>>, <<2, 3, 1>> >>
Path4Rows == << <<1, 2, 1>>, <<2, 3, 1>>, <<3, 4, 1>> >>
Star4Rows == << <<1, 2, 1>>, <<1, 3, 1>>, <<1, 4, 1>> >>
Square4Rows == << <<1, 2, 1>>, <<1, 4, 1>>, <<2, 3, 1>>, <<3, 4, 1>> >>
\* a chain of communities one longer than getMCS accepts
OverGuardRows == [k \in 1..MaxExactNodes |-> <<k, k + 1, 1>>]

NamedRows == {EmptyRows, EdgeRows, TriangleRows, Path4Rows, Star4Rows,
              Square4Rows, OverGuardRows}

SubsetsOver(docset, maxlen) ==
    {[given |-> TRUE, docs |-> d] :
        d \in UNION {[1..n -> docset] : n \in 0..maxlen}}

NamedDocs ==
    {SuperNetworkDoc(OtherPdbref, d) :
        d \in {EmptyRows, TriangleRows, Path4Rows, OverGuardRows}}
        \cup {SuperNetworkDoc(Pdbref, Square4Rows)}

WIStores ==
    {<< >>,
     <<SuperNetworkDoc(Pdbref, TriangleRows), SuperNetworkDoc(OtherPdbref, EdgeRows),
       SuperNetworkDoc(Pdbref, OverGuardRows), SuperNetworkDoc(Pdbref, Path4Rows)>>}

\* one candidate, target and candidate swept; and arrays of named candidates,
\* or no array, against an empty and a filled store
WIWorlds(maxlen) ==
    {[data |-> t, subset |-> [given |-> TRUE, docs |-> <<SuperNetworkDoc(OtherPdbref, c)>>],
      docs |-> << >>] : t \in SweptRows \cup NamedRows, c \in SweptRows \cup NamedRows}
    \cup
    {[data |-> t, subset |-> s, docs |-> d] :
        t \in {EmptyRows, EdgeRows, TriangleRows, OverGuardRows},
        s \in SubsetsOver(NamedDocs, maxlen) \cup {NoSubset},
        d \in WIStores}

InitWI ==
    /\ MCSIdle
    /\ MJIdle
    /\ NMIdle
    /\ ZSIdle
    /\ pfamArray = NoPFAM
    /\ levels = << >>
    /\ edgelist = << >>
    /\ pc = [p \in Procs |-> "idle"]
    /\ sn = [p \in Procs |-> NoSuperNetwork]
    /\ reads = [p \in Procs |-> 0]
    /\ scored = [p \in Procs |-> 0]
    /\ wiPhase = "call"
    /\ \E w \in WIWorlds(MaxCandidates) :
          /\ wiData = w.data
          /\ wiSubset = w.subset
          /\ store = w.docs
    /\ wiConsulted = FALSE
    /\ wiRet = NoList

\* one call getWeakIsomorphs(subset) on the supernetwork with data wiData
CallWI ==
    /\ wiPhase = "call"
    /\ wiRet' = getWeakIsomorphs(Pdbref, wiData, wiSubset, store)
    /\ wiConsulted' = consultsStore(wiSubset)
    /\ wiPhase' = "done"
    /\ UNCHANGED <<wiData, wiSubset, mcsVars, mjVars, worldVars, snVars, nmVars, zsVars>>

NextWI == CallWI

SpecWI == InitWI /\ [][NextWI]_vars

(***************************************************************************)
(* Properties of getWeakIsomorphs.                                         *)
(***************************************************************************)
WIDone == wiPhase = "done"

\* the supernetwork graph of a triple list, on the community ids themselves
RowsGraph(data) ==
    MkGraph("Graph", EndpointsOf(data),
            Symmetric({<<data[r][1], data[r][2]>> : r \in 1..Len(data)}))

MaxNodes(A, B) ==
    IF number_of_nodes(A) > number_of_nodes(B)
        THEN number_of_nodes(A) ELSE number_of_nodes(B)

\* the node count of a maximum common node-induced subgraph
MCSSize(A, B) ==
    CHOOSE k \in 0..number_of_nodes(A) :
        /\ CommonInduced(A, B, k)
        /\ \A l \in (k + 1)..number_of_nodes(A) : ~CommonInduced(A, B, l)

\* the size guard of getMCS does not trigger for the target and candidate doc
Feasible(doc) ==
    MaxNodes(RowsGraph(wiData), RowsGraph(doc.data)) <= MaxExactNodes

\* |MCS(target, candidate)| / max(|target|, |candidate|), 0 without nodes
ClaimedSimilarity(doc) ==
    IF MaxNodes(RowsGraph(wiData), RowsGraph(doc.data)) = 0 THEN Frac(0, 1)
    ELSE Frac(MCSSize(RowsGraph(wiData), RowsGraph(doc.data)),
              MaxNodes(RowsGraph(wiData), RowsGraph(doc.data)))

MoreThanHalf(x) == 2 * x.num > x.den

\* the candidates of the call: the subset's, those of the store for an
\* empty array
Scanned ==
    IF wiSubset.docs # << >> THEN wiSubset.docs
    ELSE SelectSeq(store, LAMBDA doc : doc.pdbref = Pdbref)

ReportOf(doc) == <<Pdbref, doc.pdbref, str(ClaimedSimilarity(doc))>>

\* C13: getWeakIsomorphs reports a candidate, as (target reference, candidate
\* reference, similarity), if and only if |MCS| / max(|target|, |candidate|)
\* is strictly greater than 0.5; a candidate at exactly 0.5 or without a
\* common subgraph (both graphs without nodes included) is not reported, and
\* nothing is divided by zero.  The similarity is reported as its text.
C13_ReportedIffAboveHalf ==
    (WIDone /\ wiSubset.given) =>
        /\ wiRet.status = "list"
        /\ {wiRet.rows[r] : r \in 1..Len(wiRet.rows)} =
              {ReportOf(Scanned[k]) :
                  k \in {m \in 1..Len(Scanned) :
                            /\ Feasible(Scanned[m])
                            /\ MoreThanHalf(ClaimedSimilarity(Scanned[m]))}}

\* a candidate at exactly 0.5 and one without nodes have been passed over,
\* and a candidate between 0.5 and 1 has been reported
C13_Witness ==
    /\ WIDone /\ wiSubset.given
    /\ Len(wiSubset.docs) = 3
    /\ \E i, j, k \in 1..3 :
          /\ Feasible(Scanned[i]) /\ ClaimedSimilarity(Scanned[i]) = Frac(1, 2)
          /\ Feasible(Scanned[j]) /\ MoreThanHalf(ClaimedSimilarity(Scanned[j]))
          /\ ClaimedSimilarity(Scanned[j]) # Frac(1, 1)
          /\ Scanned[k].data = << >>
    /\ Len(wiRet.rows) = 1

\* the reports due for the candidates from the k-th on, in order
RECURSIVE ExpectedRows(_, _)
ExpectedRows(cands, k) ==
    IF k > Len(cands) THEN << >>
    ELSE (IF Feasible(cands[k]) /\ MoreThanHalf(ClaimedSimilarity(cands[k]))
              THEN <<ReportOf(cands[k])>> ELSE << >>)
         \o ExpectedRows(cands, k + 1)

\* C14: a candidate for which the size guard of getMCS triggers is left out
\* without an exception, and the candidates before and after it are still
\* evaluated and reported by the threshold, in their order.
C14_GuardedCandidateSkipped ==
    (WIDone /\ wiSubset.given /\ \E k \in 1..Len(Scanned) : ~Feasible(Scanned[k])) =>
        /\ wiRet.status = "list"
        /\ wiRet.rows = ExpectedRows(Scanned, 1)

\* a candidate over the guard stood between two candidates that were reported
C14_Witness ==
    /\ WIDone /\ wiSubset.given
    /\ Len(wiSubset.docs) = 3
    /\ Feasible(wiSubset.docs[1])
    /\ ~Feasible(wiSubset.docs[2])
    /\ Feasible(wiSubset.docs[3])
    /\ wiRet.status = "list"
    /\ Len(wiRet.rows) = 2

\* C19: called without a subset, getWeakIsomorphs scans the supernetworks the
\* store holds for the protein reference and returns their matches; called
\* with a subset it scans exactly that subset, and for an empty subset returns
\* an empty result without consulting the store.
C19_AbsentAndEmptySubsetDistinct ==
    WIDone =>
        /\ wiRet.status = "list"
        /\ ~wiSubset.given =>
              /\ wiConsulted
              /\ wiRet.rows =
                    ExpectedRows(SelectSeq(store, LAMBDA doc : doc.pdbref = Pdbref), 1)
        /\ wiSubset.given =>
              /\ ~wiConsulted
              /\ wiRet.rows = ExpectedRows(wiSubset.docs, 1)

(***************************************************************************)
(* generateNullModel and getZScore.  insight.py has neither function (the  *)
(* tests call them): they are modelled on sections 3, 4.2 and 4.3 of the   *)
(* specification, the score being the getModifiedJaccard of insight.py.    *)
(***************************************************************************)
MaxNullLen == 4   \* the partitions handed to generateNullModel have at most this length
MaxTrials == 2    \* numTrials of getZScore is at most this

\* the number of positions whose label differs from the next position's
Transitions(array) ==
    Cardinality({k \in 1..(Len(array) - 1) : array[k] # array[k + 1]})

CommunitySize(array, label) == Cardinality({k \in 1..Len(array) : array[k] = label})

\* the multiset of community sizes: how many communities have each size
CommunitySizes(array) ==
    [size \in 1..Len(array) |->
        Cardinality({label \in Values(array) : CommunitySize(array, label) = size})]

\* section 3: non-empty, labels the contiguous range 1..K
ValidPartition(array) ==
    /\ Len(array) >= 1
    /\ Values(array) = 1..Cardinality(Values(array))

\* a relabelled rearrangement that keeps the community sizes only
NullModelsShuffled(partition) ==
    {out \in [1..Len(partition) -> Values(partition)] :
        CommunitySizes(out) = CommunitySizes(partition)}

\* sections 3 and 4.2: the label sequences of the same length with the same
\* multiset of community sizes and the same count of transitions
NullModels(partition) ==
    {out \in [1..Len(partition) -> Values(partition)] :
        /\ CommunitySizes(out) = CommunitySizes(partition)
        /\ Transitions(out) = Transitions(partition)}

NMArray(array) == [status |-> "array", array |-> array]
NMRaise(exc) == [status |-> exc, array |-> << >>]

\* section 4.2: what a call may return
generateNullModel(partition) ==
    IF ~ValidPartition(partition) THEN {NMRaise("ValueError")}
    ELSE {NMArray(out) : out \in NullModels(partition)}

NullArguments ==
    UNION {[1..n -> 0..MaxGenLabel] : n \in 0..MaxNullLen}

InitNull ==
    /\ MCSIdle
    /\ MJIdle
    /\ SNIdle
    /\ WIIdle
    /\ ZSIdle
    /\ nmPhase = "call"
    /\ nmPartition \in NullArguments
    /\ nmRet = NoArray

\* one call generateNullModel(nmPartition)
CallNull ==
    /\ nmPhase = "call"
    /\ nmRet' \in generateNullModel(nmPartition)
    /\ nmPhase' = "done"
    /\ UNCHANGED <<nmPartition, mcsVars, mjVars, worldVars, snVars, wiVars, zsVars>>

NextNull == CallNull

SpecNull == InitNull /\ [][NextNull]_vars

FracSub(x, y) == Frac(x.num * y.den - y.num * x.den, x.den * y.den)

\* mean(S_i)
MeanOf(scores) ==
    FracDiv(FracSum(scores, 1..Len(scores)), Len(scores))

\* std(S_i) squared: the mean of the squared deviations
VarianceOf(scores) ==
    LET mean == MeanOf(scores)
        squares == [i \in 1..Len(scores) |->
                       FracMul(FracSub(scores[i], mean), FracSub(scores[i], mean))]
    IN  FracDiv(FracSum(squares, 1..Len(scores)), Len(scores))

\* the number diff / sqrt(variance)
ZScore(diff, variance) == [status |-> "score", diff |-> diff, variance |-> variance]
ZSRaise(exc) == [status |-> exc, diff |-> Frac(0, 1), variance |-> Frac(1, 1)]

\* the quotient taken whatever the deviation: 0/0 is nan
ZScoreOfDividing(observed, scores) ==
    IF VarianceOf(scores).num = 0 THEN ZSRaise("nan")
    ELSE ZScore(FracSub(observed, MeanOf(scores)), VarianceOf(scores))

\* (S0 - mean(S_i)) / std(S_i), and exactly 0 when std(S_i) = 0
ZScoreOf(observed, scores) ==
    IF VarianceOf(scores).num = 0 THEN ZScore(Frac(0, 1), Frac(1, 1))
    ELSE ZScore(FracSub(observed, MeanOf(scores)), VarianceOf(scores))

\* arrays of one length: a reference over the labels 1 and 2, any labels for
\* the generated partition, and a number of trials from -1 on
ZSArguments ==
    {<<eg[1], eg[2], t>> :
        eg \in UNION {[1..n -> 1..2] \X [1..n -> 1..MaxGenLabel] : n \in 1..MaxArrayLen},
        t \in (-1)..MaxTrials}

InitZS ==
    /\ MCSIdle
    /\ MJIdle
    /\ SNIdle
    /\ WIIdle
    /\ NMIdle
    /\ zsPhase = "call"
    /\ \E args \in ZSArguments :
          /\ zsExpected = args[1]
          /\ zsGenerated = args[2]
          /\ zsTrials = args[3]
    /\ zsScores = << >>
    /\ zsRet = NoZScore

\* getZScore(zsExpected, zsGenerated, zsTrials) up to the first trial: the
\* validation, and the observed score
StartZS ==
    /\ zsPhase = "call"
    /\ IF zsTrials <= 0 \/ ~ValidPartition(zsGenerated)
           THEN zsRet' = ZSRaise("ValueError") /\ zsPhase' = "done"
       ELSE IF getModifiedJaccard(zsExpected, zsGenerated).status # "score"
           THEN /\ zsRet' = ZSRaise(getModifiedJaccard(zsExpected, zsGenerated).status)
                /\ zsPhase' = "done"
       ELSE zsRet' = zsRet /\ zsPhase' = "trials"
    /\ UNCHANGED <<zsExpected, zsGenerated, zsTrials, zsScores,
                   mcsVars, mjVars, worldVars, snVars, wiVars, nmVars>>

\* one trial: a null model of the generated partition is drawn and scored
TrialZS ==
    /\ zsPhase = "trials"
    /\ Len(zsScores) < zsTrials
    /\ \E null \in generateNullModel(zsGenerated) :
          zsScores' = Append(zsScores,
                             getModifiedJaccard(zsExpected, null.array).score)
    /\ UNCHANGED <<zsPhase, zsExpected, zsGenerated, zsTrials, zsRet,
                   mcsVars, mjVars, worldVars, snVars, wiVars, nmVars>>

\* after the last trial the z-score is returned
FinishZS ==
    /\ zsPhase = "trials"
    /\ Len(zsScores) = zsTrials
    /\ zsRet' = ZScoreOf(getModifiedJaccard(zsExpected, zsGenerated).score, zsScores)
    /\ zsPhase' = "done"
    /\ UNCHANGED <<zsExpected, zsGenerated, zsTrials, zsScores,
                   mcsVars, mjVars, worldVars, snVars, wiVars, nmVars>>

NextZS == StartZS \/ TrialZS \/ FinishZS

SpecZS == InitZS /\ [][NextZS]_vars

ZSDone == zsPhase = "done"

SingleCommunity(array) == Cardinality(Values(array)) = 1
UnitCommunities(array) == Cardinality(Values(array)) = Len(array)

\* section 3: a reference labelling with a domain: labels 1..K, K >= 2
ValidReference(array) == ValidPartition(array) /\ Cardinality(Values(array)) >= 2

ZScoreNonZeroWitness ==
    /\ ZSDone /\ zsRet.status = "score"
    /\ zsRet.diff.num # 0

(***************************************************************************)
(* Properties of the accumulation order, the sort and the deposit.         *)
(***************************************************************************)
\* the first fine edge between the two communities of triple r of p's data
FirstCrossing(p, r) ==
    CHOOSE k \in Crossing(p, sn[p].data[r][1], sn[p].data[r][2]) :
        \A l \in Crossing(p, sn[p].data[r][1], sn[p].data[r][2]) : k <= l

\* C17: the orientation of a community pair's triple is that of the first
\* crossing fine edge seen for the pair, also when its first community is the
\* greater; later fine edges of either orientation add to that triple, and
\* the two orientations of a pair are never both present.
C17_FirstSeenOrientation ==
    \A p \in Procs :
        BuiltAnew(p) =>
            \A r \in 1..Len(sn[p].data) :
                /\ Crossing(p, sn[p].data[r][1], sn[p].data[r][2]) # {}
                /\ UsedLevel(p)[edgelist[FirstCrossing(p, r)][1]] = sn[p].data[r][1]
                /\ UsedLevel(p)[edgelist[FirstCrossing(p, r)][2]] = sn[p].data[r][2]
                /\ sn[p].data[r][3] =
                      Cardinality(Crossing(p, sn[p].data[r][1], sn[p].data[r][2]))
                /\ \A q \in 1..Len(sn[p].data) :
                      ~(/\ sn[p].data[q][1] = sn[p].data[r][2]
                        /\ sn[p].data[q][2] = sn[p].data[r][1])

\* a triple whose first community is the greater has taken up a later fine
\* edge of the other orientation
C17_Witness ==
    \E p \in Procs :
        /\ BuiltAnew(p)
        /\ \E r \in 1..Len(sn[p].data) :
              /\ sn[p].data[r][1] > sn[p].data[r][2]
              /\ sn[p].data[r][3] >= 2
              /\ \E k \in Crossing(p, sn[p].data[r][1], sn[p].data[r][2]) :
                    /\ k > FirstCrossing(p, r)
                    /\ UsedLevel(p)[edgelist[k][1]] = sn[p].data[r][2]

\* row a comes strictly before row b in the order of (first, second, weight)
RowLess(a, b) ==
    \/ a[1] < b[1]
    \/ a[1] = b[1] /\ a[2] < b[2]
    \/ a[1] = b[1] /\ a[2] = b[2] /\ a[3] < b[3]

Ascending(rows) ==
    \A r, q \in 1..Len(rows) : r < q => RowLess(rows[r], rows[q])

\* C18: a construction that missed the store and succeeds leaves its triples
\* in ascending order of (first community, second community, weight) and
\* makes exactly one deposit, which carries the protein reference, the
\* partition id, the level chosen and the triple list the object exposes.
C18_SortedAndDepositedOnce ==
    [][/\ \A p \in Procs :
             (pc[p] = "miss" /\ pc'[p] = "done") =>
                 /\ Ascending(sn'[p].data)
                 /\ Len(store') = Len(store) + 1
                 /\ SubSeq(store', 1, Len(store)) = store
                 /\ store'[Len(store')].pdbref = Pdbref
                 /\ store'[Len(store')].partitionid = sn'[p].partitionid
                 /\ store'[Len(store')].level = sn'[p].level
                 /\ store'[Len(store')].data = sn'[p].data
       /\ store' # store => \E p \in Procs : pc[p] = "miss" /\ pc'[p] = "done"
      ]_vars

\* a supernetwork of two triples or more has been built and deposited
C18_Witness ==
    \E p \in Procs :
        /\ BuiltAnew(p)
        /\ Len(sn[p].data) >= 2
        /\ Len(store) = 1
        /\ store[1].data = sn[p].data

\* C20: when two constructions for one (protein, partition id) pair both miss
\* the store, both build and both deposit; under every interleaving the
\* documents the store holds for the pair have one and the same level and
\* triple list, which is the one every construction for the pair returns.
C20_RacingDepositsAgree ==
    \A p, q \in Procs :
        (p # q /\ BuiltAnew(p) /\ BuiltAnew(q)
         /\ sn[p].partitionid = sn[q].partitionid) =>
            /\ Cardinality({k \in 1..Len(store) :
                               store[k].partitionid = sn[p].partitionid}) =
                  Cardinality({r \in Procs : BuiltAnew(r)
                                  /\ sn[r].partitionid = sn[p].partitionid})
            /\ sn[p].level = sn[q].level /\ sn[p].data = sn[q].data
            /\ \A doc \in Deposited(sn[p].partitionid) :
                  doc.level = sn[p].level /\ doc.data = sn[p].data
            /\ \A r \in Procs :
                  (pc[r] = "done" /\ sn[r].partitionid = sn[p].partitionid) =>
                      (sn[r].level = sn[p].level /\ sn[r].data = sn[p].data)

\* both constructions missed the store and both have deposited a
\* supernetwork with triples
C20_Witness ==
    \E p, q \in Procs :
        /\ p # q /\ BuiltAnew(p) /\ BuiltAnew(q)
        /\ sn[p].partitionid = sn[q].partitionid
        /\ sn[p].data # << >>
        /\ Len(store) = 2

=============================================================================
